---- MODULE Spec2Model ----
(***************************************************************************)
(* A model of the source clean-up scripts clean1.js (removal of logging    *)
(* and profiling calls, with the collapse of the conditionals around       *)
(* them), clean3.js and its earlier variant (removal of the braces around  *)
(* single-statement branches), their printing, line filtering, write-back  *)
(* and directory walks.                                                    *)
(*                                                                         *)
(* Syntax trees are records with a field "kind" named after the TypeScript *)
(* SyntaxKind; an undefined node is the record Absent, and a tree          *)
(* operation that threw is the record Failed.                              *)
(***************************************************************************)
EXTENDS Integers, Sequences, FiniteSets, TLC

VARIABLES
    pc,        \* the operations run so far, in order
    source,    \* the tree of the file as it was first read
    file,      \* the text the file holds: the tree it parses to and its layout
    before,    \* the text the last processFile read
    ast,       \* the tree the last transformer returned
    first,     \* the file's tree after the first run of the pipeline
    dryRun,    \* the --dry-run flag
    wrote,     \* whether the last processFile called writeFileSync
    report,    \* what the last processFile logged
    node,      \* the node handed to shouldRemoveCall
    verdict,   \* what shouldRemoveCall answered
    lines,     \* the lines of the text that removeCommentsAndEmptyLines is given
    printed,   \* the lines the printer produced
    final,     \* the lines that removeCommentsAndEmptyLines returns
    root,      \* the directory the walk starts from
    handed     \* the paths handed to processFile, in order

vars == <<pc, source, file, before, ast, first, dryRun, wrote, report,
          node, verdict, lines, printed, final, root, handed>>

fileVars == <<source, file, before, ast, first, dryRun, wrote, report>>

classifierVars == <<node, verdict>>

lineVars == <<lines, printed, final>>

walkVars == <<root, handed>>

(***************************************************************************)
(* Bounds of the model.                                                    *)
(***************************************************************************)
MaxNodes == 5

MaxStatements == 2

MaxLines == 2

MaxLineLength == 2

MaxEntries == 2

(***************************************************************************)
(* Syntax nodes.                                                           *)
(***************************************************************************)
Absent == [kind |-> "Absent"]

Failed == [kind |-> "Failed"]

Identifier(text) == [kind |-> "Identifier", text |-> text]

ThisKeyword == [kind |-> "ThisKeyword"]

PropertyAccess(object, name) ==
    [kind |-> "PropertyAccessExpression", expression |-> object,
     name |-> Identifier(name)]

ElementAccess(object, name) ==
    [kind |-> "ElementAccessExpression", expression |-> object,
     argumentExpression |-> [kind |-> "StringLiteral", text |-> name]]

Call(callee, arguments) ==
    [kind |-> "CallExpression", expression |-> callee, arguments |-> arguments]

FunctionExpression(body) == [kind |-> "FunctionExpression", body |-> body]

ExpressionStatement(expression) ==
    [kind |-> "ExpressionStatement", expression |-> expression]

ReturnStatement(expression) ==
    [kind |-> "ReturnStatement", expression |-> expression]

Block(statements) == [kind |-> "Block", statements |-> statements]

IfStatement(expression, thenStatement, elseStatement) ==
    [kind |-> "IfStatement", expression |-> expression,
     thenStatement |-> thenStatement, elseStatement |-> elseStatement]

WhileStatement(expression, statement) ==
    [kind |-> "WhileStatement", expression |-> expression,
     statement |-> statement]

SourceFile(statements) == [kind |-> "SourceFile", statements |-> statements]

(***************************************************************************)
(* node.getText(): the source text of a node, without its leading trivia.  *)
(***************************************************************************)
RECURSIVE GetText(_)
GetText(n) ==
    CASE n.kind = "Identifier" -> n.text
      [] n.kind = "ThisKeyword" -> "this"
      [] n.kind = "PropertyAccessExpression" ->
            GetText(n.expression) \o "." \o GetText(n.name)
      [] OTHER -> "<" \o n.kind \o ">"

(***************************************************************************)
(* clean1.js: the call classifier.                                         *)
(***************************************************************************)
REMOVABLE_FUNCTIONS ==
    << "countEvent", "countRareEvent", "scopedProfileSectionStart",
       "scopedProfileSectionEnd", "profileSectionStart", "profileSectionEnd",
       "playbackLogNote", "debug", "info" >>

Includes(array, x) == \E i \in 1..Len(array) : array[i] = x

\* The classifier with the test of the receiver of log left out.
ShouldRemoveAnyLog(n) ==
    /\ n.kind = "CallExpression"
    /\ n.expression.kind = "PropertyAccessExpression"
    /\ \/ GetText(n.expression.name) = "log"
       \/ Includes(REMOVABLE_FUNCTIONS, GetText(n.expression.name))

shouldRemoveCall(n) ==
    IF n.kind # "CallExpression" THEN FALSE
    ELSE LET expression == n.expression IN
         IF expression.kind = "PropertyAccessExpression"
         THEN LET methodName == GetText(expression.name) IN
              IF GetText(expression.expression) = "console" /\ methodName = "log"
              THEN TRUE
              ELSE Includes(REMOVABLE_FUNCTIONS, methodName)
         ELSE FALSE

(***************************************************************************)
(* The nodes the classifier is tried on.                                   *)
(***************************************************************************)
Receivers ==
    { Identifier("console"), Identifier("logger"), Identifier("Console"),
      PropertyAccess(ThisKeyword, "console") }

MethodNames ==
    { REMOVABLE_FUNCTIONS[i] : i \in 1..Len(REMOVABLE_FUNCTIONS) }
        \cup { "log", "warn" }

ProbeNodes ==
    { Call(PropertyAccess(r, m), <<>>) : r \in Receivers, m \in MethodNames }
        \cup { Call(Identifier(m), <<>>) : m \in MethodNames }
        \cup { Call(ElementAccess(r, m), <<>>) :
                 r \in {Identifier("console")}, m \in {"log", "debug"} }
        \cup { PropertyAccess(Identifier("console"), m) : m \in {"log", "info"} }
        \cup { Identifier("debug"),
               ExpressionStatement(
                   Call(PropertyAccess(Identifier("console"), "log"), <<>>)) }

(***************************************************************************)
(* clean1.js: processNode, the rewriter of conditionals.                   *)
(***************************************************************************)
IsRemovableStatement(n) ==
    n.kind = "ExpressionStatement" /\ shouldRemoveCall(n.expression)

\* ts.factory.updateIfStatement: the node rebuilt around the given children.
UpdateIfStatement(n, expression, thenStatement, elseStatement) ==
    IfStatement(expression, thenStatement, elseStatement)

\* The rules of the conditional without the test that the visited then
\* branch is still there.
IfStatementCaseKeepingThen(n, thenStatement, elseStatement) ==
    IF IsRemovableStatement(n.thenStatement)
    THEN elseStatement
    ELSE IF thenStatement # n.thenStatement \/ elseStatement # n.elseStatement
    THEN UpdateIfStatement(n, n.expression, thenStatement, elseStatement)
    ELSE n

\* Lines 41-65 of visit: thenStatement and elseStatement are the visited
\* branches of the IfStatement n.
IfStatementCase(n, thenStatement, elseStatement) ==
    IF IsRemovableStatement(n.thenStatement)
    THEN elseStatement
    ELSE LET elseKept ==
                 IF /\ elseStatement # Absent
                    /\ IsRemovableStatement(n.elseStatement)
                 THEN Absent
                 ELSE elseStatement
         IN  IF thenStatement = Absent
             THEN elseKept
             ELSE IF \/ thenStatement # n.thenStatement
                     \/ elseKept # n.elseStatement
                  THEN UpdateIfStatement(n, n.expression, thenStatement, elseKept)
                  ELSE n

\* The TypeScript libraries the scripts can be run with differ in what
\* visitEachChild does with a statement that the visitor removed from a
\* position that holds exactly one statement: a library that asserts the
\* visited body throws, one that does not keeps the parent without its body.
Libraries == {"asserting", "lenient"}

EmbeddedStatement(visited, lib) ==
    IF visited = Absent /\ lib = "asserting" THEN Failed ELSE visited

RECURSIVE visit(_, _), visitEachChild(_, _), visitNodes(_, _)

\* ts.visitNodes: each node visited, the removed ones dropped.
visitNodes(nodes, lib) ==
    IF nodes = <<>> THEN [failed |-> FALSE, nodes |-> <<>>]
    ELSE LET head == visit(Head(nodes), lib)
             rest == visitNodes(Tail(nodes), lib)
         IN  IF head = Failed \/ rest.failed
             THEN [failed |-> TRUE, nodes |-> <<>>]
             ELSE [failed |-> FALSE,
                   nodes |-> IF head = Absent THEN rest.nodes
                             ELSE <<head>> \o rest.nodes]

\* ts.visitEachChild(node, visit, context)
visitEachChild(n, lib) ==
    CASE n.kind \in {"Block", "SourceFile"} ->
            LET statements == visitNodes(n.statements, lib)
            IN  IF statements.failed THEN Failed
                ELSE [n EXCEPT !.statements = statements.nodes]
      [] n.kind = "WhileStatement" ->
            LET statement == EmbeddedStatement(visit(n.statement, lib), lib)
            IN  IF statement = Failed THEN Failed
                ELSE WhileStatement(n.expression, statement)
      [] n.kind \in {"ExpressionStatement", "ReturnStatement"} ->
            LET expression == visit(n.expression, lib)
            IN  IF expression = Failed THEN Failed
                ELSE [n EXCEPT !.expression = expression]
      [] n.kind = "CallExpression" ->
            LET arguments == visitNodes(n.arguments, lib)
            IN  IF arguments.failed THEN Failed
                ELSE [n EXCEPT !.arguments = arguments.nodes]
      [] n.kind = "FunctionExpression" ->
            LET body == visit(n.body, lib)
            IN  IF body = Failed THEN Failed ELSE [n EXCEPT !.body = body]
      [] OTHER -> n

\* processNode(context): the visitor
visit(n, lib) ==
    IF n = Absent THEN n
    ELSE IF n.kind = "IfStatement"
    THEN LET thenStatement == visit(n.thenStatement, lib)
             elseStatement ==
                 IF n.elseStatement # Absent THEN visit(n.elseStatement, lib)
                 ELSE Absent
         IN  IF thenStatement = Failed \/ elseStatement = Failed THEN Failed
             ELSE IfStatementCase(n, thenStatement, elseStatement)
    ELSE IF IsRemovableStatement(n) THEN Absent
    ELSE visitEachChild(n, lib)

processNode(sourceFile, lib) == visit(sourceFile, lib)

(***************************************************************************)
(* The trees a file can parse to.  A grammar names the leaf statements,    *)
(* the conditions, and whether loops and calls with a callback occur; the  *)
(* size of a statement is the number of statements in it, and lists bounds *)
(* the statements of one block.                                            *)
(***************************************************************************)
LogCall ==
    ExpressionStatement(Call(PropertyAccess(Identifier("console"), "log"), <<>>))

WorkCall == ExpressionStatement(Call(Identifier("doWork"), <<>>))

ReturnVoid == ReturnStatement(Absent)

\* run(function () { body });
CallbackCall(body) ==
    ExpressionStatement(
        Call(Identifier("run"), <<FunctionExpression(Block(body))>>))

\* The text of the statement ends in an if without an else, so that an else
\* printed after it is parsed as that if's else.
RECURSIVE EndsInOpenIf(_)
EndsInOpenIf(s) ==
    CASE s.kind = "IfStatement" ->
            IF s.elseStatement = Absent THEN TRUE
            ELSE EndsInOpenIf(s.elseStatement)
      [] s.kind = "WhileStatement" ->
            s.statement # Absent /\ EndsInOpenIf(s.statement)
      [] OTHER -> FALSE

RECURSIVE StatementsOfSize(_, _), ListsOfSize(_, _, _)

StatementsOfSize(n, g) ==
    IF n = 1
    THEN g.leaves \cup {Block(<<>>)}
            \cup (IF g.callbacks THEN {CallbackCall(<<>>)} ELSE {})
    ELSE { Block(ss) : ss \in ListsOfSize(n - 1, g, g.lists) }
            \cup (IF g.callbacks
                  THEN { CallbackCall(ss) : ss \in ListsOfSize(n - 1, g, g.lists) }
                  ELSE {})
            \cup { IfStatement(c, t, Absent) :
                     c \in g.conditions, t \in StatementsOfSize(n - 1, g) }
            \cup UNION { { IfStatement(c, t, e) :
                             c \in g.conditions,
                             t \in { x \in StatementsOfSize(k, g) :
                                       ~EndsInOpenIf(x) },
                             e \in StatementsOfSize(n - 1 - k, g) } :
                         k \in 1..(n - 2) }
            \cup (IF g.loops
                  THEN { WhileStatement(Identifier("more"), b) :
                           b \in StatementsOfSize(n - 1, g) }
                  ELSE {})

\* The lists of at most m statements, of n statements in all.
ListsOfSize(n, g, m) ==
    IF n = 0 THEN { <<>> }
    ELSE IF m = 0 THEN {}
    ELSE UNION { { <<s>> \o rest :
                     s \in StatementsOfSize(k, g),
                     rest \in ListsOfSize(n - k, g, m - 1) } :
                 k \in 1..n }

StatementsUpTo(n, g) == UNION { StatementsOfSize(k, g) : k \in 1..n }

\* The files of one top-level statement of at most n statements.
FilesUpTo(n, g) == { SourceFile(<<s>>) : s \in StatementsUpTo(n, g) }

\* if (a) { run(function () { s }); }
BracedCallback(s) ==
    IfStatement(Identifier("a"), Block(<<CallbackCall(<<s>>)>>), Absent)

RewriterGrammar ==
    [leaves |-> {LogCall, WorkCall},
     conditions |-> {Identifier("a"), Identifier("b")},
     loops |-> TRUE, callbacks |-> FALSE, lists |-> MaxNodes]

PipelineGrammar ==
    [leaves |-> {LogCall, WorkCall, ReturnVoid},
     conditions |-> {Identifier("a")},
     loops |-> FALSE, callbacks |-> TRUE, lists |-> MaxStatements]

\* The files of at most MaxNodes statements, and the larger ones that hold
\* a statement in the body of a callback that sits alone in a braced branch.
PipelineFiles ==
    FilesUpTo(MaxNodes, PipelineGrammar)
        \cup { SourceFile(<<BracedCallback(s)>>) :
                 s \in StatementsUpTo(MaxNodes - 2, PipelineGrammar) }

(***************************************************************************)
(* Printing a tree and parsing the text again.  The printer puts no braces *)
(* of its own around a branch, so an else printed after a then branch that *)
(* ends in an if without else is parsed as the else of that inner if.  It  *)
(* throws on a node that lacks its statement.                              *)
(***************************************************************************)
RECURSIVE IsComplete(_)
IsComplete(n) ==
    CASE n.kind = "Failed" -> FALSE
      [] n.kind \in {"Block", "SourceFile"} ->
            \A i \in 1..Len(n.statements) : IsComplete(n.statements[i])
      [] n.kind = "IfStatement" ->
            /\ n.thenStatement # Absent /\ IsComplete(n.thenStatement)
            /\ IsComplete(n.elseStatement)
      [] n.kind = "WhileStatement" ->
            n.statement # Absent /\ IsComplete(n.statement)
      [] n.kind \in {"ExpressionStatement", "ReturnStatement"} ->
            IsComplete(n.expression)
      [] n.kind = "CallExpression" ->
            \A i \in 1..Len(n.arguments) : IsComplete(n.arguments[i])
      [] n.kind = "FunctionExpression" -> IsComplete(n.body)
      [] OTHER -> TRUE

RECURSIVE AttachElse(_, _)
AttachElse(s, e) ==
    CASE s.kind = "IfStatement" ->
            IF s.elseStatement # Absent
            THEN [s EXCEPT !.elseStatement = AttachElse(s.elseStatement, e)]
            ELSE IF EndsInOpenIf(s.thenStatement)
            THEN [s EXCEPT !.thenStatement = AttachElse(s.thenStatement, e)]
            ELSE [s EXCEPT !.elseStatement = e]
      [] s.kind = "WhileStatement" ->
            [s EXCEPT !.statement = AttachElse(s.statement, e)]

RECURSIVE Reparse(_), ReparseAll(_)
ReparseAll(nodes) ==
    IF nodes = <<>> THEN <<>>
    ELSE <<Reparse(Head(nodes))>> \o ReparseAll(Tail(nodes))

Reparse(n) ==
    CASE n.kind \in {"Block", "SourceFile"} ->
            [n EXCEPT !.statements = ReparseAll(n.statements)]
      [] n.kind = "IfStatement" ->
            LET t == Reparse(n.thenStatement)
                e == Reparse(n.elseStatement)
            IN  IF e # Absent /\ EndsInOpenIf(t)
                THEN IfStatement(n.expression, AttachElse(t, e), Absent)
                ELSE IfStatement(n.expression, t, e)
      [] n.kind = "WhileStatement" ->
            [n EXCEPT !.statement = Reparse(n.statement)]
      [] n.kind \in {"ExpressionStatement", "ReturnStatement"} ->
            [n EXCEPT !.expression = Reparse(n.expression)]
      [] n.kind = "CallExpression" ->
            [n EXCEPT !.arguments = ReparseAll(n.arguments)]
      [] n.kind = "FunctionExpression" ->
            [n EXCEPT !.body = Reparse(n.body)]
      [] OTHER -> n

\* printer.printFile(tree), as the tree its text parses to
printFile(tree) == IF IsComplete(tree) THEN Reparse(tree) ELSE Failed

(***************************************************************************)
(* clean3.js and its earlier variant: createTransformer, which takes the   *)
(* braces off single-statement branches.  isElse says that the node is the *)
(* elseStatement of its parent IfStatement; strict is the test of clean3.js*)
(* that the single statement is an expression or return statement.         *)
(***************************************************************************)
IsSimple(s) == s.kind \in {"ExpressionStatement", "ReturnStatement"}

RECURSIVE unbrace(_, _, _), unbraceEachChild(_, _), unbraceAll(_, _)

unbraceAll(nodes, strict) ==
    IF nodes = <<>> THEN <<>>
    ELSE <<unbrace(Head(nodes), FALSE, strict)>>
            \o unbraceAll(Tail(nodes), strict)

\* ts.visitEachChild(node, visit, context)
unbraceEachChild(n, strict) ==
    CASE n.kind \in {"Block", "SourceFile"} ->
            [n EXCEPT !.statements = unbraceAll(n.statements, strict)]
      [] n.kind = "IfStatement" ->
            IfStatement(n.expression,
                        unbrace(n.thenStatement, FALSE, strict),
                        unbrace(n.elseStatement, TRUE, strict))
      [] n.kind = "WhileStatement" ->
            [n EXCEPT !.statement = unbrace(n.statement, FALSE, strict)]
      [] n.kind \in {"ExpressionStatement", "ReturnStatement"} ->
            [n EXCEPT !.expression = unbrace(n.expression, FALSE, strict)]
      [] n.kind = "CallExpression" ->
            [n EXCEPT !.arguments = unbraceAll(n.arguments, strict)]
      [] n.kind = "FunctionExpression" ->
            [n EXCEPT !.body = unbrace(n.body, FALSE, strict)]
      [] OTHER -> n

\* the visitor of createTransformer
unbrace(n, isElse, strict) ==
    IF n = Absent THEN n
    ELSE IF /\ n.kind = "IfStatement"
            /\ n.thenStatement.kind = "Block"
            /\ Len(n.thenStatement.statements) = 1
            /\ (strict => IsSimple(n.thenStatement.statements[1]))
    THEN IfStatement(n.expression, n.thenStatement.statements[1],
                     IF n.elseStatement # Absent
                     THEN unbrace(n.elseStatement, TRUE, strict)
                     ELSE Absent)
    ELSE IF /\ n.kind = "Block" /\ isElse
            /\ Len(n.statements) = 1
            /\ (strict => IsSimple(n.statements[1]))
    THEN n.statements[1]
    ELSE unbraceEachChild(n, strict)

\* clean3.js
createTransformer(sourceFile) == unbrace(sourceFile, FALSE, TRUE)

\* the earlier variant of the script
createTransformerAnyStatement(sourceFile) == unbrace(sourceFile, FALSE, FALSE)

(***************************************************************************)
(* processFile of the three scripts.  A text is the tree it parses to and  *)
(* the layout of its characters: that of its author, or that of the script *)
(* that printed it.                                                        *)
(***************************************************************************)
Text(tree, layout) == [tree |-> tree, layout |-> layout]

Layouts == {"authored", "clean1", "clean2", "clean3"}

\* clean1.js: processFile
RunClean1 ==
    /\ pc \in { <<>>, <<"clean1", "clean3">> }
    /\ ~dryRun
    /\ \E lib \in Libraries :
          LET transformed == processNode(file.tree, lib)
              transformedCode ==
                  IF transformed = Failed THEN Failed
                  ELSE printFile(transformed)
          IN  /\ ast' = transformed
              /\ IF transformedCode = Failed
                 THEN /\ file' = file
                      /\ wrote' = FALSE
                      /\ report' = "error"
                 ELSE /\ file' = Text(transformedCode, "clean1")
                      /\ wrote' = TRUE
                      /\ report' = "processed"
    /\ before' = file
    /\ pc' = Append(pc, "clean1")
    /\ UNCHANGED <<source, first, dryRun, classifierVars, lineVars, walkVars>>

\* clean3.js and the earlier variant: processFile(filePath, dryRun), with
\* the tree that the script's transformer made of the file's
processFile(script, transformedTree) ==
    LET transformed == Text(printFile(transformedTree), script)
    IN  /\ ast' = transformedTree
        /\ IF file # transformed
           THEN IF dryRun
                THEN /\ file' = file
                     /\ wrote' = FALSE
                     /\ report' = "would transform"
                ELSE /\ file' = transformed
                     /\ wrote' = TRUE
                     /\ report' = "transformed"
           ELSE /\ file' = file
                /\ wrote' = FALSE
                /\ report' = "skipped"
        /\ before' = file
        /\ pc' = Append(pc, script)
        /\ UNCHANGED <<source, dryRun, classifierVars, lineVars, walkVars>>

RunClean3 ==
    /\ pc \in { <<>>, <<"clean1">>, <<"clean1", "clean3", "clean1">> }
    /\ processFile("clean3", createTransformer(file.tree))
    /\ first' = IF pc = <<"clean1">> THEN file'.tree ELSE first

RunClean2 ==
    /\ pc = <<>>
    /\ processFile("clean2", createTransformerAnyStatement(file.tree))
    /\ UNCHANGED first

Idle == "idle"

InitFile(files, layouts, flags) ==
    /\ pc = <<>>
    /\ source \in files
    /\ \E layout \in layouts : file = Text(source, layout)
    /\ before = file
    /\ ast = Absent
    /\ first = Absent
    /\ dryRun \in flags
    /\ wrote = FALSE
    /\ report = "none"
    /\ node = Idle /\ verdict = Idle
    /\ lines = Idle /\ printed = Idle /\ final = Idle
    /\ root = Idle /\ handed = Idle

\* clean1.js run once on a file, as cleanup.sh runs it.
Init == InitFile(FilesUpTo(MaxNodes, RewriterGrammar), {"authored"}, {FALSE})

Next == RunClean1

Spec == Init /\ [][Next]_vars

\* The scripts run as the pipeline, twice over, or each simplifier alone.
InitPipeline == InitFile(PipelineFiles, {"authored"}, {FALSE})

NextPipeline == RunClean1 \/ RunClean3 \/ RunClean2

SpecPipeline == InitPipeline /\ [][NextPipeline]_vars

\* The same operations on small files in every layout, with and without
\* --dry-run.
InitWrite ==
    InitFile(FilesUpTo(MaxNodes - 2, PipelineGrammar), Layouts, BOOLEAN)

SpecWrite == InitWrite /\ [][NextPipeline]_vars

IdleFile ==
    /\ source = Idle /\ file = Idle /\ before = Idle /\ ast = Idle
    /\ first = Idle /\ dryRun = Idle /\ wrote = Idle /\ report = Idle

(***************************************************************************)
(* shouldRemoveCall applied to a node.                                     *)
(***************************************************************************)
InitClassify ==
    /\ pc = <<>>
    /\ node \in ProbeNodes
    /\ verdict = "pending"
    /\ IdleFile
    /\ lines = Idle /\ printed = Idle /\ final = Idle
    /\ root = Idle /\ handed = Idle

Classify ==
    /\ pc = <<>>
    /\ verdict' = IF shouldRemoveCall(node) THEN "remove" ELSE "keep"
    /\ pc' = <<"shouldRemoveCall">>
    /\ UNCHANGED <<node, fileVars, lineVars, walkVars>>

SpecClassify == InitClassify /\ [][Classify]_vars

(***************************************************************************)
(* clean1.js: removeCommentsAndEmptyLines.  A line is a sequence of tokens:*)
(* a blank, a word, the comment mark and the word eslint.  Its transformer *)
(* collects the eslint comments of each node and returns every node as it  *)
(* is, so the tree printed is the tree given.                              *)
(***************************************************************************)
Tokens == {" ", "word", "//", "eslint"}

RECURSIVE SeqsUpTo(_, _)
SeqsUpTo(S, n) ==
    IF n = 0 THEN { <<>> }
    ELSE SeqsUpTo(S, n - 1)
            \cup { Append(q, x) : q \in SeqsUpTo(S, n - 1), x \in S }

\* line.includes('eslint')
IncludesEslint(line) == \E i \in 1..Len(line) : line[i] = "eslint"

\* line.trim().length > 0
TrimmedLength(line) == Cardinality({ i \in 1..Len(line) : line[i] # " " })

\* The line holds a comment and nothing before it.
IsCommentLine(line) ==
    \E i \in 1..Len(line) :
        /\ line[i] = "//"
        /\ \A j \in 1..(i - 1) : line[j] = " "

\* The options clean1.js creates its printer with
printerOptions == [removeComments |-> FALSE, newLine |-> "LineFeed"]

\* printer.printFile, split at the line feeds: the statements and, unless
\* removeComments is set, the comments, one to a line with no blank line
\* between them, and a line feed at the end, after which split('\n') finds
\* one more, empty, line.
PrintedLines(text, options) ==
    LET printedLine(line) ==
            /\ TrimmedLength(line) > 0
            /\ (IsCommentLine(line) => ~options.removeComments)
    IN  Append(SelectSeq(text, printedLine), <<>>)

removeCommentsAndEmptyLines(text) ==
    LET keep(line) == IncludesEslint(line) \/ TrimmedLength(line) > 0
    IN  SelectSeq(PrintedLines(text, printerOptions), keep)

InitLines ==
    /\ pc = <<>>
    /\ lines \in SeqsUpTo(SeqsUpTo(Tokens, MaxLineLength), MaxLines)
    /\ printed = <<>>
    /\ final = <<>>
    /\ IdleFile
    /\ node = Idle /\ verdict = Idle
    /\ root = Idle /\ handed = Idle

RemoveCommentsAndEmptyLines ==
    /\ pc = <<>>
    /\ printed' = PrintedLines(lines, printerOptions)
    /\ final' = removeCommentsAndEmptyLines(lines)
    /\ pc' = <<"removeCommentsAndEmptyLines">>
    /\ UNCHANGED <<lines, fileVars, classifierVars, walkVars>>

SpecLines == InitLines /\ [][RemoveCommentsAndEmptyLines]_vars

(***************************************************************************)
(* The directory walks.  A name is the sequence of its parts, each         *)
(* extension a part of its own; a path is the sequence of the names from   *)
(* the root down.                                                          *)
(***************************************************************************)
FileEntry(name) == [name |-> name, isDirectory |-> FALSE]

DirectoryEntry(name, entries) ==
    [name |-> name, isDirectory |-> TRUE, entries |-> entries]

\* name.endsWith(extension)
EndsWith(name, extension) == name # <<>> /\ name[Len(name)] = extension

IsTypeScriptName(name) == EndsWith(name, ".ts") \/ EndsWith(name, ".tsx")

SkippedDirectories == { <<"node_modules">>, <<".git">>, <<"dist">>, <<"build">> }

RECURSIVE getAllTypeScriptFiles(_, _), scanItems(_, _)

\* clean3.js and the earlier variant: the loop over the items of a directory
scanItems(items, dir) ==
    IF items = <<>> THEN <<>>
    ELSE LET item == Head(items)
             fullPath == Append(dir, item.name)
             found ==
                 IF item.isDirectory
                 THEN IF item.name \in SkippedDirectories THEN <<>>
                      ELSE getAllTypeScriptFiles(item, fullPath)
                 ELSE IF IsTypeScriptName(item.name) THEN <<fullPath>>
                 ELSE <<>>
         IN  found \o scanItems(Tail(items), dir)

getAllTypeScriptFiles(directory, dir) == scanItems(directory.entries, dir)

RECURSIVE processDirectory(_, _), forEachFile(_, _)

\* clean1.js: the forEach over the files of a directory; the result is the
\* paths processFile is called with, in the order of the calls
forEachFile(files, directoryPath) ==
    IF files = <<>> THEN <<>>
    ELSE LET entry == Head(files)
             filePath == Append(directoryPath, entry.name)
             called ==
                 IF entry.isDirectory THEN processDirectory(entry, filePath)
                 ELSE IF IsTypeScriptName(entry.name) THEN <<filePath>>
                 ELSE <<>>
         IN  called \o forEachFile(Tail(files), directoryPath)

processDirectory(directory, directoryPath) ==
    forEachFile(directory.entries, directoryPath)

FileNames == { <<"a", ".ts">>, <<"b", ".tsx">>, <<"c", ".js">> }

DirectoryNames == SkippedDirectories \cup { <<"src">> }

\* The lists of at most n entries with names of their own.
RECURSIVE EntryLists(_, _)
EntryLists(E, n) ==
    IF n = 0 THEN { <<>> }
    ELSE EntryLists(E, n - 1)
            \cup { Append(q, e) :
                     q \in { l \in EntryLists(E, n - 1) :
                               Len(l) = n - 1 },
                     e \in E }

DistinctNames(l) ==
    \A i, j \in 1..Len(l) : l[i].name = l[j].name => i = j

FlatEntries ==
    { FileEntry(f) : f \in FileNames }
        \cup { DirectoryEntry(d, l) :
                 d \in DirectoryNames,
                 l \in { q \in EntryLists({ FileEntry(f) : f \in FileNames },
                                          MaxEntries) : DistinctNames(q) } }

Roots ==
    { DirectoryEntry(<<".">>, l) :
        l \in { q \in EntryLists(FlatEntries, MaxEntries) : DistinctNames(q) } }

InitWalk ==
    /\ pc = <<>>
    /\ root \in Roots
    /\ handed = <<>>
    /\ IdleFile
    /\ node = Idle /\ verdict = Idle
    /\ lines = Idle /\ printed = Idle /\ final = Idle

\* clean1.js: processDirectory(projectDirectory)
WalkClean1 ==
    /\ pc = <<>>
    /\ handed' = processDirectory(root, <<root.name>>)
    /\ pc' = <<"clean1">>
    /\ UNCHANGED <<root, fileVars, classifierVars, lineVars>>

\* clean3.js: processDirectory(dirPath, dryRun)
WalkClean3 ==
    /\ pc = <<>>
    /\ handed' = getAllTypeScriptFiles(root, <<root.name>>)
    /\ pc' = <<"clean3">>
    /\ UNCHANGED <<root, fileVars, classifierVars, lineVars>>

\* the earlier variant: processDirectory(dirPath, dryRun)
WalkClean2 ==
    /\ pc = <<>>
    /\ handed' = getAllTypeScriptFiles(root, <<root.name>>)
    /\ pc' = <<"clean2">>
    /\ UNCHANGED <<root, fileVars, classifierVars, lineVars>>

NextWalk == WalkClean1 \/ WalkClean3 \/ WalkClean2

SpecWalk == InitWalk /\ [][NextWalk]_vars

(***************************************************************************)
(* Properties of clean1.js run on a file (Spec).                           *)
(***************************************************************************)
RanClean1 == pc = <<"clean1">>

\* The statement the file held, and what processNode left in its place.
TopStatement == source.statements[1]

ResultStatement ==
    IF ast = Failed THEN Failed
    ELSE IF ast.statements = <<>> THEN Absent
    ELSE ast.statements[1]

RECURSIVE HasEmptyBlock(_)
HasEmptyBlock(n) ==
    CASE n.kind \in {"Block", "SourceFile"} ->
            \/ n.kind = "Block" /\ n.statements = <<>>
            \/ \E i \in 1..Len(n.statements) : HasEmptyBlock(n.statements[i])
      [] n.kind = "IfStatement" ->
            HasEmptyBlock(n.thenStatement) \/ HasEmptyBlock(n.elseStatement)
      [] n.kind = "WhileStatement" -> HasEmptyBlock(n.statement)
      [] OTHER -> FALSE

\* Every statement of the block is removed by the rewrite.
AllRemoved(block, lib) ==
    /\ block.kind = "Block"
    /\ block.statements # <<>>
    /\ visit(block, lib) = Block(<<>>)

\* C1: an IfStatement whose then branch is a Block all of whose statements
\* the rewrite removes is replaced by its rewritten else branch, is removed
\* when it has no else branch, and no empty Block is left in the output.
C1_EmptiedThenCollapses ==
    RanClean1 =>
        \A lib \in Libraries :
            /\ ast = processNode(source, lib)
            /\ TopStatement.kind = "IfStatement"
            /\ ~HasEmptyBlock(source)
            /\ AllRemoved(TopStatement.thenStatement, lib)
            => /\ ResultStatement = visit(TopStatement.elseStatement, lib)
               /\ ~HasEmptyBlock(ast)

\* C2: an IfStatement whose then branch survives and whose else branch is a
\* Block holding only a removable call statement comes out with its
\* condition, the rewritten then branch and no else branch.
C2_EmptiedElseDropped ==
    RanClean1 =>
        \A lib \in Libraries :
            /\ ast = processNode(source, lib)
            /\ TopStatement.kind = "IfStatement"
            /\ visit(TopStatement.thenStatement, lib) \notin {Absent, Failed}
            /\ TopStatement.elseStatement.kind = "Block"
            /\ Len(TopStatement.elseStatement.statements) = 1
            /\ IsRemovableStatement(TopStatement.elseStatement.statements[1])
            => ResultStatement =
                   IfStatement(TopStatement.expression,
                               visit(TopStatement.thenStatement, lib), Absent)

\* The rules of C9 for the IfStatement n, its rewritten branches t and e and
\* the result r; secondRule is what the second rule says of them.
IfRules(n, t, e, r, secondRule) ==
    /\ r = Failed <=> (t = Failed \/ e = Failed)
    /\ r # Failed =>
         IF IsRemovableStatement(n.thenStatement) THEN r = e
         ELSE IF IsRemovableStatement(n.elseStatement) THEN secondRule
         ELSE IF t = Absent THEN r = e
         ELSE /\ r = IfStatement(n.expression, t, e)
              /\ (t = n.thenStatement /\ e = n.elseStatement => r = n)

ElseDroppedThenKept(n, t, r) ==
    /\ r.kind = "IfStatement"
    /\ r.expression = n.expression
    /\ r.elseStatement = Absent
    /\ r.thenStatement = t

ElseDroppedOrVanished(n, t, r) ==
    IF t = Absent THEN r = Absent ELSE ElseDroppedThenKept(n, t, r)

C10_OutputWellFormed == RanClean1 => ast # Failed /\ IsComplete(ast)

\* Some IfStatement of the tree has an else branch and, as its then branch,
\* a bare IfStatement without else: printed, the else is read as the inner
\* if's else.
RECURSIVE HasReboundElse(_)
HasReboundElse(n) ==
    CASE n.kind \in {"Block", "SourceFile"} ->
            \E i \in 1..Len(n.statements) : HasReboundElse(n.statements[i])
      [] n.kind = "IfStatement" ->
            \/ /\ n.elseStatement # Absent
               /\ n.thenStatement.kind = "IfStatement"
               /\ n.thenStatement.elseStatement = Absent
            \/ HasReboundElse(n.thenStatement)
            \/ HasReboundElse(n.elseStatement)
      [] n.kind = "WhileStatement" -> HasReboundElse(n.statement)
      [] OTHER -> FALSE

\* C11: when no IfStatement of the input that has an else branch has a bare
\* IfStatement without else as its then branch, no IfStatement of the
\* output of processNode has one either.
C11_ElseBindingKept ==
    RanClean1 /\ ast # Failed /\ ~HasReboundElse(source) => ~HasReboundElse(ast)

(***************************************************************************)
(* Properties of the pipeline and of the simplifiers (SpecPipeline).       *)
(***************************************************************************)
\* C3: the pipeline run a second time on the output of its first run leaves
\* that output as it is.
C3_PipelineIdempotent ==
    pc = <<"clean1", "clean3", "clean1", "clean3">> => file.tree = first

\* What the claim says of a branch and of what the simplifier made of it: a
\* Block is replaced by its statement exactly when it holds one statement,
\* an expression or return statement, and is a Block still otherwise.
BranchAsClaimed(branch, result) ==
    branch.kind = "Block" =>
        IF Len(branch.statements) = 1 /\ IsSimple(branch.statements[1])
        THEN result = branch.statements[1]
        ELSE result.kind = "Block"

\* C4: under either simplifier run on its own, the braces of a branch of an
\* IfStatement go exactly when the branch is a Block of one expression or
\* return statement, and no IfStatement with an else comes out with a bare
\* IfStatement for the Block that was its then branch.
C4_OnlySimpleBlocksUnbraced ==
    /\ pc \in { <<"clean3">>, <<"clean2">> }
    /\ TopStatement.kind = "IfStatement"
    => /\ ResultStatement.kind = "IfStatement"
       /\ BranchAsClaimed(TopStatement.thenStatement,
                          ResultStatement.thenStatement)
       /\ BranchAsClaimed(TopStatement.elseStatement,
                          ResultStatement.elseStatement)
       /\ ( /\ TopStatement.thenStatement.kind = "Block"
            /\ ResultStatement.elseStatement # Absent
            => ResultStatement.thenStatement.kind # "IfStatement" )

(***************************************************************************)
(* Properties of the line filter (SpecLines).                              *)
(***************************************************************************)
Occurs(line, text) == \E i \in 1..Len(text) : text[i] = line

\* C5: of the printed lines, each with the marker eslint is in the final
\* text, none that is blank without the marker is, and the final text holds
\* no comment line without the marker.
C5_OnlyMarkedCommentsLeft ==
    pc = <<"removeCommentsAndEmptyLines">> =>
        /\ \A i \in 1..Len(printed) :
              IncludesEslint(printed[i]) => Occurs(printed[i], final)
        /\ \A j \in 1..Len(final) :
              /\ IncludesEslint(final[j]) \/ TrimmedLength(final[j]) > 0
              /\ IsCommentLine(final[j]) => IncludesEslint(final[j])

(***************************************************************************)
(* Properties of the classifier (SpecClassify).                            *)
(***************************************************************************)
Denylisted ==
    { "countEvent", "countRareEvent", "scopedProfileSectionStart",
      "scopedProfileSectionEnd", "profileSectionStart", "profileSectionEnd",
      "playbackLogNote", "debug", "info" }

RemovableAsClaimed(n) ==
    /\ n.kind = "CallExpression"
    /\ n.expression.kind = "PropertyAccessExpression"
    /\ \/ /\ n.expression.expression = Identifier("console")
          /\ n.expression.name = Identifier("log")
       \/ n.expression.name.text \in Denylisted

\* C6: shouldRemoveCall answers for every node, and answers true exactly for
\* the calls of X.method where X is the identifier console and method is
\* log, or method is one of the nine denylisted names.
C6_ClassifierExact ==
    pc = <<"shouldRemoveCall">> =>
        /\ verdict \in {"remove", "keep"}
        /\ verdict = "remove" <=> RemovableAsClaimed(node)

\* A call of the bare identifier debug is kept and a call of debug on a
\* receiver other than console is removed.
C6_Witness ==
    /\ pc = <<"shouldRemoveCall">>
    /\ \/ node = Call(Identifier("debug"), <<>>) /\ verdict = "keep"
       \/ /\ node = Call(PropertyAccess(Identifier("logger"), "debug"), <<>>)
          /\ verdict = "remove"

(***************************************************************************)
(* Properties of processFile (SpecWrite).                                  *)
(***************************************************************************)
RECURSIVE HasRemovableCall(_), HasSingleStatementBlock(_)
HasRemovableCall(n) ==
    CASE n.kind \in {"Block", "SourceFile"} ->
            \E i \in 1..Len(n.statements) : HasRemovableCall(n.statements[i])
      [] n.kind = "IfStatement" ->
            HasRemovableCall(n.thenStatement) \/ HasRemovableCall(n.elseStatement)
      [] n.kind = "WhileStatement" -> HasRemovableCall(n.statement)
      [] n.kind \in {"ExpressionStatement", "ReturnStatement"} ->
            IsRemovableStatement(n) \/ HasRemovableCall(n.expression)
      [] n.kind = "CallExpression" ->
            \E i \in 1..Len(n.arguments) : HasRemovableCall(n.arguments[i])
      [] n.kind = "FunctionExpression" -> HasRemovableCall(n.body)
      [] OTHER -> FALSE

HasSingleStatementBlock(n) ==
    CASE n.kind \in {"Block", "SourceFile"} ->
            \/ n.kind = "Block" /\ Len(n.statements) = 1
            \/ \E i \in 1..Len(n.statements) :
                  HasSingleStatementBlock(n.statements[i])
      [] n.kind = "IfStatement" ->
            \/ HasSingleStatementBlock(n.thenStatement)
            \/ HasSingleStatementBlock(n.elseStatement)
      [] n.kind = "WhileStatement" -> HasSingleStatementBlock(n.statement)
      [] n.kind \in {"ExpressionStatement", "ReturnStatement"} ->
            HasSingleStatementBlock(n.expression)
      [] n.kind = "CallExpression" ->
            \E i \in 1..Len(n.arguments) :
                HasSingleStatementBlock(n.arguments[i])
      [] n.kind = "FunctionExpression" ->
            \E i \in 1..Len(n.body.statements) :
                HasSingleStatementBlock(n.body.statements[i])
      [] OTHER -> FALSE

\* C7: processFile of every script writes the file only when the run is not
\* a dry run and the final text differs from the text read, writes nothing
\* in a dry run, and reports a file with no removable call and no
\* single-statement block as unchanged without writing it.  The last part is
\* stated of the files that are laid out as the script itself prints them:
\* any other text differs from its own printing.
C7_WritesOnlyChanges ==
    pc # <<>> =>
        /\ wrote => ~dryRun /\ file # before
        /\ dryRun => ~wrote /\ file = before
        /\ ( /\ ~HasRemovableCall(before.tree)
             /\ ~HasSingleStatementBlock(before.tree)
             /\ before.layout = pc[Len(pc)]
             => report = "skipped" /\ ~wrote )

(***************************************************************************)
(* Properties of the directory walks (SpecWalk).                           *)
(***************************************************************************)
\* The paths of the TypeScript files under the entries, none of them
\* through a directory with a skipped name.
RECURSIVE FilesToProcess(_, _)
FilesToProcess(entries, dir) ==
    UNION { IF entries[i].isDirectory
            THEN IF entries[i].name \in
                       { <<"node_modules">>, <<".git">>, <<"dist">>, <<"build">> }
                 THEN {}
                 ELSE FilesToProcess(entries[i].entries,
                                     Append(dir, entries[i].name))
            ELSE IF \/ entries[i].name[Len(entries[i].name)] = ".ts"
                    \/ entries[i].name[Len(entries[i].name)] = ".tsx"
                 THEN { Append(dir, entries[i].name) }
                 ELSE {} : i \in 1..Len(entries) }

\* C8: the files handed to processFile are exactly the .ts and .tsx files
\* reachable from the root without passing through a directory named
\* node_modules, .git, dist or build, under the walk of every script.
C8_WalkSkipsExcluded ==
    pc # <<>> =>
        { handed[i] : i \in 1..Len(handed) }
            = FilesToProcess(root.entries, <<root.name>>)

====
